---- MODULE Spec2Model ----
(***************************************************************************)
(* Binance USDT-M Futures testnet bot: the input validator, the signed     *)
(* request pipeline of BinanceClient, the three order placement helpers    *)
(* and the TWAP strategy loop.                                             *)
(*                                                                         *)
(* Text is a sequence of one-character strings.  A parameter name is an    *)
(* alphanumeric identifier, which the URL encoder leaves unchanged; it is  *)
(* carried as one symbol of the sequence.  A float is the exact rational   *)
(* [num, den]; str(float) is rendered in fixed notation to FracDigits      *)
(* places.  One behaviour is one invocation of one entry point.            *)
(***************************************************************************)
EXTENDS Integers, Sequences, FiniteSets, TLC

(***************************************************************************)
(* Bounds of the model.                                                    *)
(***************************************************************************)
MaxSlices == 3
MaxInterval == 2
FracDigits == 4

(***************************************************************************)
(* Program constants.                                                      *)
(***************************************************************************)
MinSymbolLen == 5
MaxSymbolLen == 20
RecvWindowDefault == 5000
HttpErrorFloor == 400
MsPerSecond == 1000

(***************************************************************************)
(* Text                                                                    *)
(***************************************************************************)
LowerCase ==
  << "a","b","c","d","e","f","g","h","i","j","k","l","m",
     "n","o","p","q","r","s","t","u","v","w","x","y","z" >>
UpperCase ==
  << "A","B","C","D","E","F","G","H","I","J","K","L","M",
     "N","O","P","Q","R","S","T","U","V","W","X","Y","Z" >>
Digits == << "0","1","2","3","4","5","6","7","8","9" >>

Range(s) == { s[k] : k \in DOMAIN s }

Whitespace == { " ", "\t" }
LowerSet == Range(LowerCase)
AlnumChars == Range(LowerCase) \cup Range(UpperCase) \cup Range(Digits)
UpperOf == [c \in LowerSet |->
              UpperCase[CHOOSE k \in DOMAIN LowerCase : LowerCase[k] = c]]

\* str.upper() on one character
UpperChar(c) ==
  IF c \in LowerSet THEN UpperOf[c] ELSE c

\* str.upper()
Upper(s) == [k \in DOMAIN s |-> UpperChar(s[k])]

\* str.strip(): leading and trailing whitespace removed
Strip(s) ==
  LET keep == { k \in DOMAIN s : s[k] \notin Whitespace }
  IN  IF keep = {} THEN << >>
      ELSE LET lo == CHOOSE k \in keep : \A j \in keep : k <= j
               hi == CHOOSE k \in keep : \A j \in keep : k >= j
           IN  SubSeq(s, lo, hi)

\* str.isalnum(): non-empty and every character a letter or a digit
IsAlnum(s) ==
  /\ Len(s) > 0
  /\ \A k \in DOMAIN s : s[k] \in AlnumChars

\* str(int) for a natural number
RECURSIVE IntStr(_)
IntStr(n) ==
  IF n < 10 THEN << Digits[n + 1] >>
  ELSE IntStr(n \div 10) \o << Digits[(n % 10) + 1] >>

\* the first k decimal places of r / den, for 0 <= r < den
RECURSIVE FracPlaces(_, _, _)
FracPlaces(r, den, k) ==
  IF k = 0 THEN << >>
  ELSE << Digits[((r * 10) \div den) + 1] >>
         \o FracPlaces((r * 10) % den, den, k - 1)

\* trailing zeros dropped, one place always kept ("2.0")
RECURSIVE TrimZeros(_)
TrimZeros(s) ==
  IF Len(s) > 1 /\ s[Len(s)] = "0" THEN TrimZeros(SubSeq(s, 1, Len(s) - 1))
  ELSE s

\* str(float)
FloatStr(q) ==
  LET a == IF q.num < 0 THEN 0 - q.num ELSE q.num
  IN  (IF q.num < 0 THEN << "-" >> ELSE << >>)
      \o IntStr(a \div q.den) \o << "." >>
      \o TrimZeros(FracPlaces(a % q.den, q.den, FracDigits))

(***************************************************************************)
(* Values                                                                  *)
(***************************************************************************)
None == << >>
Some(v) == << v >>
IsNone(o) == o = << >>
The(o) == o[1]

Q(n, d) == [num |-> n, den |-> d]
QPositive(q) == q.num > 0
\* float("nan"): every comparison with it is false
NaN == [num |-> 0, den |-> 0]
\* q <= 0
QLeZero(q) == q # NaN /\ q.num <= 0
\* float / int
QDiv(q, n) == [num |-> q.num, den |-> q.den * n]

StrV(s) == [t |-> "str", v |-> s]
IntV(n) == [t |-> "int", v |-> n]
FloatV(q) == [t |-> "float", v |-> q]

\* str(v), as urlencode applies it to a value that is not already text
ToText(x) ==
  CASE x.t = "str" -> x.v
    [] x.t = "int" -> IntStr(x.v)
    [] x.t = "float" -> FloatStr(x.v)

(***************************************************************************)
(* validators.py                                                           *)
(***************************************************************************)
Ok(v) == [ok |-> TRUE, value |-> v]
Fail(kind, m) == [ok |-> FALSE, error |-> [tag |-> kind, msg |-> m]]
ValidationError(m) == Fail("InvalidInput", m)

T_MARKET == << "M","A","R","K","E","T" >>
T_LIMIT == << "L","I","M","I","T" >>
T_STOP_LIMIT == << "S","T","O","P","_","L","I","M","I","T" >>
T_STOP == << "S","T","O","P" >>
T_GTC == << "G","T","C" >>
T_BUY == << "B","U","Y" >>
T_SELL == << "S","E","L","L" >>

\* the two messages about a price, as text: lines 70 and 74
PRICE_MESSAGE ==
  << "P","r","i","c","e"," ","m","u","s","t"," ","b","e"," ","p","o","s",
     "i","t","i","v","e"," ","f","o","r"," ","L","I","M","I","T"," ","a",
     "n","d"," ","S","T","O","P","_","L","I","M","I","T"," ","o","r","d",
     "e","r","s","." >>
STOP_PRICE_MESSAGE ==
  << "s","t","o","p","_","p","r","i","c","e"," ","m","u","s","t"," ","b",
     "e"," ","p","o","s","i","t","i","v","e"," ","f","o","r"," ","S","T",
     "O","P","_","L","I","M","I","T"," ","o","r","d","e","r","s","." >>

_normalize_symbol(symbol) ==
  LET s == Upper(Strip(symbol))
  IN  IF ~IsAlnum(s)
        THEN ValidationError("Symbol must be alphanumeric, e.g. BTCUSDT.")
      ELSE IF Len(s) < MinSymbolLen \/ Len(s) > MaxSymbolLen
        THEN ValidationError("Symbol length must be between 5 and 20 characters.")
      ELSE Ok(s)

_normalize_side(side) ==
  LET s == Upper(Strip(side))
  IN  IF s \notin { T_BUY, T_SELL }
        THEN ValidationError("Side must be BUY or SELL.")
      ELSE Ok(s)

_normalize_order_type(order_type) ==
  LET t == Upper(Strip(order_type))
  IN  IF t \notin { T_MARKET, T_LIMIT, T_STOP_LIMIT }
        THEN ValidationError("Order type must be MARKET, LIMIT, or STOP_LIMIT.")
      ELSE Ok(t)

\* variant of validate_order_input: the check of quantity is missing
validate_no_quantity(symbol, side, order_type, quantity, price, stop_price) ==
  LET norm_symbol == _normalize_symbol(symbol)
      norm_side == _normalize_side(side)
      norm_type == _normalize_order_type(order_type)
  IN  IF ~norm_symbol.ok THEN norm_symbol
      ELSE IF ~norm_side.ok THEN norm_side
      ELSE IF ~norm_type.ok THEN norm_type
      ELSE IF /\ norm_type.value \in { T_LIMIT, T_STOP_LIMIT }
              /\ (IsNone(price) \/ ~QPositive(The(price)))
        THEN ValidationError(PRICE_MESSAGE)
      ELSE IF /\ norm_type.value = T_STOP_LIMIT
              /\ (IsNone(stop_price) \/ ~QPositive(The(stop_price)))
        THEN ValidationError(STOP_PRICE_MESSAGE)
      ELSE Ok([symbol |-> norm_symbol.value,
               side |-> norm_side.value,
               order_type |-> norm_type.value,
               quantity |-> quantity,
               price |-> price,
               stop_price |-> stop_price])

\* variant of validate_order_input: the check of stop_price is missing
validate_no_stop_price(symbol, side, order_type, quantity, price, stop_price) ==
  LET norm_symbol == _normalize_symbol(symbol)
      norm_side == _normalize_side(side)
      norm_type == _normalize_order_type(order_type)
  IN  IF ~norm_symbol.ok THEN norm_symbol
      ELSE IF ~norm_side.ok THEN norm_side
      ELSE IF ~norm_type.ok THEN norm_type
      ELSE IF QLeZero(quantity)
        THEN ValidationError("Quantity must be positive.")
      ELSE IF /\ norm_type.value \in { T_LIMIT, T_STOP_LIMIT }
              /\ (IsNone(price) \/ QLeZero(The(price)))
        THEN ValidationError(PRICE_MESSAGE)
      ELSE Ok([symbol |-> norm_symbol.value,
               side |-> norm_side.value,
               order_type |-> norm_type.value,
               quantity |-> quantity,
               price |-> price,
               stop_price |-> stop_price])

validate_order_input(symbol, side, order_type, quantity, price, stop_price) ==
  LET norm_symbol == _normalize_symbol(symbol)
      norm_side == _normalize_side(side)
      norm_type == _normalize_order_type(order_type)
  IN  IF ~norm_symbol.ok THEN norm_symbol
      ELSE IF ~norm_side.ok THEN norm_side
      ELSE IF ~norm_type.ok THEN norm_type
      ELSE IF QLeZero(quantity)
        THEN ValidationError("Quantity must be positive.")
      ELSE IF /\ norm_type.value \in { T_LIMIT, T_STOP_LIMIT }
              /\ (IsNone(price) \/ QLeZero(The(price)))
        THEN ValidationError(PRICE_MESSAGE)
      ELSE IF /\ norm_type.value = T_STOP_LIMIT
              /\ (IsNone(stop_price) \/ QLeZero(The(stop_price)))
        THEN ValidationError(STOP_PRICE_MESSAGE)
      ELSE Ok([symbol |-> norm_symbol.value,
               side |-> norm_side.value,
               order_type |-> norm_type.value,
               quantity |-> quantity,
               price |-> price,
               stop_price |-> stop_price])

(***************************************************************************)
(* config.py                                                               *)
(***************************************************************************)
\* load_config: the two environment values stripped; both must be non-empty
load_config(environ) ==
  LET api_key == Strip(environ.BINANCE_API_KEY)
      api_secret == Strip(environ.BINANCE_API_SECRET)
  IN  IF api_key = << >> \/ api_secret = << >>
        THEN Fail("RuntimeError",
                  "BINANCE_API_KEY and BINANCE_API_SECRET must be set")
      ELSE Ok([api_key |-> api_key,
               api_secret |-> api_secret,
               recv_window |-> RecvWindowDefault])

(***************************************************************************)
(* urlencode / parse_qsl                                                   *)
(***************************************************************************)
\* characters quote_plus leaves as they are, besides letters and digits
AlwaysSafe == { "_", ".", "-", "~" }

\* the percent escape of a character that is neither safe nor a space
PctEscape(c) ==
  CASE c = "\t" -> << "%","0","9" >>
    [] c = "%" -> << "%","2","5" >>
    [] c = "&" -> << "%","2","6" >>
    [] c = "+" -> << "%","2","B" >>
    [] c = "/" -> << "%","2","F" >>
    [] c = "=" -> << "%","3","D" >>

Escapable == { "\t", "%", "&", "+", "/", "=" }

QuoteChar(c) ==
  IF c \in AlnumChars \cup AlwaysSafe THEN << c >>
  ELSE IF c = " " THEN << "+" >>
  ELSE PctEscape(c)

\* urllib.parse.quote_plus
RECURSIVE quote_plus(_)
quote_plus(s) ==
  IF s = << >> THEN << >> ELSE QuoteChar(Head(s)) \o quote_plus(Tail(s))

\* one "key=value" of the query string
EncodePair(p) == << p[1], "=" >> \o quote_plus(ToText(p[2]))

\* urllib.parse.urlencode(params, doseq=True): pairs in mapping order, "&" between
RECURSIVE urlencode(_)
urlencode(params) ==
  IF params = << >> THEN << >>
  ELSE IF Len(params) = 1 THEN EncodePair(params[1])
  ELSE EncodePair(params[1]) \o << "&" >> \o urlencode(Tail(params))

\* urllib.parse.unquote_plus
RECURSIVE unquote_plus(_)
unquote_plus(s) ==
  IF s = << >> THEN << >>
  ELSE IF Head(s) = "+" THEN << " " >> \o unquote_plus(Tail(s))
  ELSE IF Head(s) = "%" /\ Len(s) >= 3
            /\ \E c \in Escapable : PctEscape(c) = SubSeq(s, 1, 3)
    THEN << CHOOSE c \in Escapable : PctEscape(c) = SubSeq(s, 1, 3) >>
           \o unquote_plus(SubSeq(s, 4, Len(s)))
  ELSE << Head(s) >> \o unquote_plus(Tail(s))

\* the text before the first separator, and the text after it
Before(s, sep) ==
  IF \E k \in DOMAIN s : s[k] = sep
    THEN SubSeq(s, 1, (CHOOSE k \in DOMAIN s :
                         s[k] = sep /\ \A j \in 1..(k - 1) : s[j] # sep) - 1)
    ELSE s
After(s, sep) ==
  IF \E k \in DOMAIN s : s[k] = sep
    THEN SubSeq(s, (CHOOSE k \in DOMAIN s :
                      s[k] = sep /\ \A j \in 1..(k - 1) : s[j] # sep) + 1, Len(s))
    ELSE << >>

\* urllib.parse.parse_qsl: the (name, text) pairs of a query string
RECURSIVE parse_qsl(_)
parse_qsl(qs) ==
  IF qs = << >> THEN << >>
  ELSE LET field == Before(qs, "&")
       IN  << << Before(field, "=")[1], unquote_plus(After(field, "=")) >> >>
             \o parse_qsl(After(qs, "&"))

(***************************************************************************)
(* Ordered mappings (dict): a sequence of <<name, value>> pairs            *)
(***************************************************************************)
HasKey(params, k) == \E j \in DOMAIN params : params[j][1] = k
Get(params, k) == params[CHOOSE j \in DOMAIN params : params[j][1] = k][2]
Keys(params) == [j \in DOMAIN params |-> params[j][1]]

\* params[k] = v: an existing name keeps its place, a new one goes last
SetItem(params, k, v) ==
  IF HasKey(params, k)
    THEN [j \in DOMAIN params |->
            IF params[j][1] = k THEN << k, v >> ELSE params[j]]
    ELSE Append(params, << k, v >>)

\* params.setdefault(k, v)
SetDefault(params, k, v) ==
  IF HasKey(params, k) THEN params ELSE Append(params, << k, v >>)

(***************************************************************************)
(* HMAC-SHA256 hexdigest, as a keyed rolling checksum of four hex digits   *)
(***************************************************************************)
CodePoints ==
  LowerCase \o UpperCase \o Digits
    \o << " ", "\t", "%", "&", "+", "/", "=", "_", ".", "-", "~",
          "symbol", "side", "type", "quantity", "price", "timeInForce",
          "stopPrice", "timestamp", "recvWindow", "signature" >>

OrdOf == [a \in Range(CodePoints) |->
            CHOOSE k \in DOMAIN CodePoints : CodePoints[k] = a]
Ord(a) == OrdOf[a]

HexDigits ==
  << "0","1","2","3","4","5","6","7","8","9","a","b","c","d","e","f" >>

\* the position-weighted checksum of s[lo..hi], by halves
RECURSIVE Mix(_, _, _)
Mix(s, lo, hi) ==
  IF lo > hi THEN 0
  ELSE IF lo = hi THEN (Ord(s[lo]) * ((lo * 7919 + 13) % 65521)) % 65521
  ELSE LET mid == (lo + hi) \div 2
       IN  (Mix(s, lo, mid) + Mix(s, mid + 1, hi)) % 65521

hmac_hexdigest(key, msg) ==
  LET keyed == key \o << "&" >> \o msg
      h == Mix(keyed, 1, Len(keyed))
  IN  << HexDigits[((h \div 4096) % 16) + 1], HexDigits[((h \div 256) % 16) + 1],
         HexDigits[((h \div 16) % 16) + 1], HexDigits[(h % 16) + 1] >>

(***************************************************************************)
(* JSON values and HTTP responses                                          *)
(***************************************************************************)
JNumber(n) == [kind |-> "number", val |-> n]
JString(s) == [kind |-> "string", val |-> s]
JNull == [kind |-> "null", val |-> << >>]
JArray(xs) == [kind |-> "array", val |-> xs]
JObject(r) == [kind |-> "object", val |-> r]

W_code == << "c","o","d","e" >>

\* s occurs in t
IsSubstring(s, t) ==
  \E k \in 0..(Len(t) - Len(s)) : SubSeq(t, k + 1, k + Len(s)) = s

\* bool(v) of a parsed JSON value
Truthy(v) ==
  CASE v.kind = "number" -> v.val # 0
    [] v.kind = "string" -> v.val # << >>
    [] v.kind = "null" -> FALSE
    [] v.kind = "array" -> v.val # << >>
    [] v.kind = "object" -> DOMAIN v.val # {}

\* v != 0
NotZero(v) == ~(v.kind = "number" /\ v.val = 0)

\* resp.json(), with the fallback {"raw": resp.text} for a body that is not JSON
ParseBody(body) ==
  IF body.json THEN body.value ELSE JObject([raw |-> JString(body.text)])

\* Python's `"code" in data`: "yes", "no", or the TypeError of a value that is
\* not a container
InCode(data) ==
  CASE data.kind = "object" ->
         IF "code" \in DOMAIN data.val THEN "yes" ELSE "no"
    [] data.kind = "array" ->
         IF \E k \in DOMAIN data.val : data.val[k] = JString(W_code)
           THEN "yes" ELSE "no"
    [] data.kind = "string" ->
         IF IsSubstring(W_code, data.val) THEN "yes" ELSE "no"
    [] OTHER -> "TypeError"

BinanceApiError(status_code, data) ==
  [tag |-> "Rejected",
   status_code |-> status_code,
   code |-> IF "code" \in DOMAIN data.val THEN Some(data.val.code) ELSE None,
   msg |-> IF "msg" \in DOMAIN data.val /\ Truthy(data.val.msg)
             THEN << "msg", data.val.msg >> ELSE << "data", data >>]

\* lines 75-89 of _post: the outcome of a call whose response arrived
Classify(status_code, body) ==
  LET data == ParseBody(body)
  IN  IF status_code >= HttpErrorFloor
        THEN IF data.kind = "object"
               THEN BinanceApiError(status_code, data)
               ELSE [tag |-> "AttributeError"]
      ELSE IF InCode(data) = "TypeError" THEN [tag |-> "TypeError"]
      ELSE IF InCode(data) = "no" THEN [tag |-> "Accepted", data |-> data]
      ELSE IF data.kind # "object" THEN [tag |-> "AttributeError"]
      ELSE IF NotZero(data.val.code) THEN BinanceApiError(status_code, data)
      ELSE [tag |-> "Accepted", data |-> data]

(***************************************************************************)
(* binance_client.py                                                       *)
(***************************************************************************)
ORDER_PATH == "/fapi/v1/order"

\* variant of SigningQuery: the pairs joined as they are, nothing escaped
RECURSIVE SigningQueryRaw(_)
SigningQueryRaw(params) ==
  IF params = << >> THEN << >>
  ELSE IF Len(params) = 1
    THEN << params[1][1], "=" >> \o ToText(params[1][2])
  ELSE << params[1][1], "=" >> \o ToText(params[1][2]) \o << "&" >>
         \o SigningQueryRaw(Tail(params))

\* line 53: the text the HMAC is computed over
SigningQuery(params) == urlencode(params)

_sign_params(config, params) ==
  SetItem(params, "signature",
          StrV(hmac_hexdigest(config.api_secret, SigningQuery(params))))

\* line 74: the query string the HTTP library puts on the wire for params
WireQuery(params) == urlencode(params)

\* lines 66-68: a copy of the caller's mapping with the two defaults
WithDefaults(config, params, now) ==
  SetDefault(SetDefault(params, "timestamp", IntV(now)),
             "recvWindow", IntV(config.recv_window))

\* variant of PreparedRequest: recvWindow is added after the signature
PreparedRequestSignEarly(config, path, params, signed, now) ==
  LET base == SetDefault(params, "timestamp", IntV(now))
      sent == SetDefault(IF signed THEN _sign_params(config, base) ELSE base,
                         "recvWindow", IntV(config.recv_window))
  IN  [ev |-> "request", method |-> "POST", path |-> path,
       api_key |-> config.api_key,
       caller |-> params, params |-> sent,
       signed |-> IF signed THEN SigningQuery(base) ELSE << >>,
       query |-> WireQuery(sent)]

\* lines 65-73 of _post: the request handed to the HTTP session
PreparedRequest(config, path, params, signed, now) ==
  LET base == WithDefaults(config, params, now)
      sent == IF signed THEN _sign_params(config, base) ELSE base
  IN  [ev |-> "request", method |-> "POST", path |-> path,
       api_key |-> config.api_key,
       caller |-> params, params |-> sent,
       signed |-> IF signed THEN SigningQuery(base) ELSE << >>,
       query |-> WireQuery(sent)]

\* variant of _post: a call the network failed is sent a second time
_postRetry(request, net) ==
  [wire |-> IF net.ok
              THEN << request,
                      [ev |-> "response", status_code |-> net.status_code,
                       body |-> net.body] >>
              ELSE << request, request >>,
   outcome |-> IF net.ok THEN Classify(net.status_code, net.body)
               ELSE [tag |-> "TransportError"]]

\* variant of _post: a response with an error status is asked for again
_postAgainOnError(request, net) ==
  LET reply == [ev |-> "response", status_code |-> net.status_code,
                body |-> net.body]
  IN  [wire |-> IF ~net.ok THEN << request >>
                ELSE IF net.status_code >= HttpErrorFloor
                  THEN << request, reply, request, reply >>
                ELSE << request, reply >>,
       outcome |-> IF net.ok THEN Classify(net.status_code, net.body)
                   ELSE [tag |-> "TransportError"]]

\* lines 74-89 of _post, net being what the network did with the request:
\* what crossed the wire (the request, and the response when one arrived) and
\* the outcome of the call
_post(request, net) ==
  [wire |-> << request >>
              \o (IF net.ok
                    THEN << [ev |-> "response",
                             status_code |-> net.status_code,
                             body |-> net.body] >>
                    ELSE << >>),
   outcome |-> IF net.ok THEN Classify(net.status_code, net.body)
               ELSE [tag |-> "TransportError"]]

\* variant of place_order: timeInForce is always sent, empty when not given
place_orderAlwaysTimeInForce(config, symbol, side, order_type, quantity, price, time_in_force, stop_price, now) ==
  LET p0 == << << "symbol", StrV(symbol) >>, << "side", StrV(side) >>,
               << "type", StrV(order_type) >>,
               << "quantity", FloatV(quantity) >> >>
      p1 == IF IsNone(price) THEN p0
            ELSE Append(p0, << "price", FloatV(The(price)) >>)
      p2 == Append(p1, << "timeInForce",
                          StrV(IF IsNone(time_in_force) THEN << >>
                               ELSE The(time_in_force)) >>)
      p3 == IF IsNone(stop_price) THEN p2
            ELSE Append(p2, << "stopPrice", FloatV(The(stop_price)) >>)
  IN  PreparedRequest(config, ORDER_PATH, p3, TRUE, now)

\* lines 106-122 of place_order: the request it passes to _post
place_order(config, symbol, side, order_type, quantity, price, time_in_force, stop_price, now) ==
  LET p0 == << << "symbol", StrV(symbol) >>, << "side", StrV(side) >>,
               << "type", StrV(order_type) >>,
               << "quantity", FloatV(quantity) >> >>
      p1 == IF IsNone(price) THEN p0
            ELSE Append(p0, << "price", FloatV(The(price)) >>)
      p2 == IF IsNone(time_in_force) THEN p1
            ELSE Append(p1, << "timeInForce", StrV(The(time_in_force)) >>)
      p3 == IF IsNone(stop_price) THEN p2
            ELSE Append(p2, << "stopPrice", FloatV(The(stop_price)) >>)
  IN  PreparedRequest(config, ORDER_PATH, p3, TRUE, now)

(***************************************************************************)
(* Inputs                                                                  *)
(***************************************************************************)
SymBTC == << "B","T","C","U","S","D","T" >>
SymLower == << "e","t","h","u","s","d","t" >>
SymPadded == << " ","b","t","c","u","s","d","t","\t" >>
SymShort == << "B","T","C" >>
SymDash == << "B","T","C","-","U","S","D","T" >>
SymLong == [k \in 1..(MaxSymbolLen + 1) |-> "A"]

Symbols == { SymBTC, SymLower, SymPadded, SymShort, SymDash, SymLong, << >> }
TwapSymbols == { SymPadded, SymDash }

Sides == { T_BUY, << "s","e","l","l" >>, << " ","B","u","y","\t" >>,
           << "H","O","L","D" >> }
TwapSides == { << " ","s","e","l","l" >>, << "H","O","L","D" >> }

Quantities == { Q(2, 1000), Q(0, 1), Q(0 - 1, 1000) }
Prices == { None, Some(Q(75000, 1)), Some(Q(0, 1)), Some(Q(0 - 5, 10)) }
StopPrices == { None, Some(Q(74000, 1)), Some(Q(0, 1)) }
TotalQuantities == { Q(12, 1000), Q(0, 1), Q(0 - 12, 1000) }
SliceCounts == (0 - 1)..MaxSlices
Intervals == { 0 - 1, 0, MaxInterval }

Environs ==
  { [BINANCE_API_KEY |-> << "k","e","y" >>,
     BINANCE_API_SECRET |-> << " ","s","3","c","r","e","t" >>],
    [BINANCE_API_KEY |-> << "k","e","y" >>, BINANCE_API_SECRET |-> << " " >>],
    [BINANCE_API_KEY |-> << >>, BINANCE_API_SECRET |-> << >>] }

W_NEW == << "N","E","W" >>
Bodies ==
  { [json |-> TRUE,
     value |-> JObject([orderId |-> JNumber(1), status |-> JString(W_NEW),
                        executedQty |-> JString(<< "0" >>),
                        avgPrice |-> JString(<< "0" >>)])],
    [json |-> TRUE, value |-> JObject([orderId |-> JNumber(2)])],
    [json |-> TRUE,
     value |-> JObject([code |-> JNumber(0), msg |-> JString(<< "o","k" >>)])],
    [json |-> TRUE,
     value |-> JObject([code |-> JNumber(0 - 2019),
                        msg |-> JString(<< "M","a","r","g","i","n" >>)])],
    [json |-> TRUE, value |-> JObject([code |-> JNumber(0 - 1021)])],
    [json |-> TRUE, value |-> JArray(<< >>)],
    [json |-> TRUE, value |-> JArray(<< JString(W_code) >>)],
    [json |-> TRUE, value |-> JString(<< "b","a","d"," ","c","o","d","e" >>)],
    [json |-> TRUE, value |-> JNull],
    [json |-> FALSE, text |-> << "<","h","t","m","l",">" >>] }

StatusCodes == { 200, 400 }

NetResults ==
  { [ok |-> FALSE] }
    \cup { [ok |-> TRUE, status_code |-> sc, body |-> b] :
             sc \in StatusCodes, b \in Bodies }

(***************************************************************************)
(* State                                                                   *)
(***************************************************************************)
VARIABLES
  environ,    \* the process environment load_config reads
  pc,         \* "idle", "twap_loop" (inside the slice loop) or "done"
  call,       \* the entry point invoked and its arguments
  cfg,        \* the configuration the running TWAP loaded
  i,          \* the loop variable of the slice loop
  responses,  \* the local list of run_twap_strategy
  result,     \* what the entry point gave its caller
  events,     \* every HTTP request sent and every sleep, in order
  now,        \* the clock, in milliseconds
  nConfig,    \* calls of load_config
  nPlace      \* calls of BinanceClient.place_order

vars == << environ, pc, call, cfg, i, responses, result, events, now,
           nConfig, nPlace >>

Clock0 == 1700

Init ==
  /\ environ \in Environs
  /\ pc = "idle"
  /\ call = [kind |-> "none"]
  /\ cfg = None
  /\ i = 0
  /\ responses = << >>
  /\ result = [tag |-> "none"]
  /\ events = << >>
  /\ now = Clock0
  /\ nConfig = 0
  /\ nPlace = 0

Raise(error) == [tag |-> "raised", error |-> error]
Return(value) == [tag |-> "returned", value |-> value]

\* what a function returns to its caller for an outcome of place_order
Deliver(outcome) ==
  IF outcome.tag = "Accepted" THEN Return(outcome.data) ELSE Raise(outcome)

\* the body shared by the three order helpers, after the call of
\* validate_order_input: load_config, BinanceClient(cfg), client.place_order
PlaceValidated(v, order_type, with_price, time_in_force, with_stop) ==
  IF ~v.ok
    THEN /\ result' = Raise(v.error)
         /\ UNCHANGED << events, nConfig, nPlace >>
  ELSE LET c == load_config(environ)
       IN  /\ nConfig' = nConfig + 1
           /\ IF ~c.ok
                THEN /\ result' = Raise(c.error)
                     /\ UNCHANGED << events, nPlace >>
              ELSE LET req == place_order(c.value, v.value.symbol,
                                          v.value.side, order_type,
                                          v.value.quantity,
                                          IF with_price THEN v.value.price
                                                        ELSE None,
                                          time_in_force,
                                          IF with_stop THEN v.value.stop_price
                                                       ELSE None,
                                          now)
                   IN  \E net \in NetResults :
                         LET r == _post(req, net)
                         IN  /\ events' = events \o r.wire
                             /\ nPlace' = nPlace + 1
                             /\ result' = Deliver(r.outcome)

PlaceMarketOrder(symbol, side, quantity) ==
  /\ pc = "idle"
  /\ call' = [kind |-> "market", symbol |-> symbol, side |-> side,
              quantity |-> quantity]
  /\ PlaceValidated(
       validate_order_input(symbol, side, T_MARKET, quantity, None, None),
       T_MARKET, FALSE, None, FALSE)
  /\ pc' = "done"
  /\ UNCHANGED << environ, cfg, i, responses, now >>

PlaceLimitOrder(symbol, side, quantity, price) ==
  /\ pc = "idle"
  /\ call' = [kind |-> "limit", symbol |-> symbol, side |-> side,
              quantity |-> quantity, price |-> price]
  /\ PlaceValidated(
       validate_order_input(symbol, side, T_LIMIT, quantity, price, None),
       T_LIMIT, TRUE, Some(T_GTC), FALSE)
  /\ pc' = "done"
  /\ UNCHANGED << environ, cfg, i, responses, now >>

PlaceStopLimitOrder(symbol, side, quantity, price, stop_price) ==
  /\ pc = "idle"
  /\ call' = [kind |-> "stop_limit", symbol |-> symbol, side |-> side,
              quantity |-> quantity, price |-> price,
              stop_price |-> stop_price]
  /\ PlaceValidated(
       validate_order_input(symbol, side, T_STOP_LIMIT, quantity, price,
                            stop_price),
       T_STOP, TRUE, Some(T_GTC), TRUE)
  /\ pc' = "done"
  /\ UNCHANGED << environ, cfg, i, responses, now >>

(***************************************************************************)
(* advanced/twap.py                                                        *)
(***************************************************************************)
\* variant of TwapEntry: the check of interval_seconds is missing
TwapEntryNoInterval(symbol, side, total_quantity, slices, interval_seconds) ==
  IF slices <= 0 THEN ValidationError("slices must be a positive integer.")
  ELSE LET per_order_qty == QDiv(total_quantity, slices)
           v == validate_order_input(symbol, side, T_MARKET, per_order_qty,
                                     None, None)
       IN  IF ~v.ok THEN v ELSE Ok(per_order_qty)

\* lines 35-49 and 51-61 of run_twap_strategy: the checks made before the loop
TwapEntry(symbol, side, total_quantity, slices, interval_seconds) ==
  IF slices <= 0 THEN ValidationError("slices must be a positive integer.")
  ELSE IF interval_seconds < 0
    THEN ValidationError("interval must be non-negative.")
  ELSE LET per_order_qty == QDiv(total_quantity, slices)
           v == validate_order_input(symbol, side, T_MARKET, per_order_qty,
                                     None, None)
       IN  IF ~v.ok THEN v ELSE Ok(per_order_qty)

\* variant of SleepsAfter: the test on the loop index is missing
SleepsAfterEvery(k, slices, interval_seconds) == interval_seconds > 0

\* line 72: whether the loop sleeps after slice k (counted from 0)
SleepsAfter(k, slices, interval_seconds) ==
  k < slices - 1 /\ interval_seconds > 0

\* variant of TwapAbort: the responses collected are returned, the failure last
TwapAbortPartial(collected, outcome) == Return(Append(collected, outcome))

\* lines 65-71: an exception of place_order leaves the loop and the function;
\* the local list goes with the frame
TwapAbort(collected, outcome) == Raise(outcome)

TwapStart(symbol, side, total_quantity, slices, interval_seconds) ==
  /\ pc = "idle"
  /\ LET e == TwapEntry(symbol, side, total_quantity, slices, interval_seconds)
         c == load_config(environ)
     IN  /\ call' = [kind |-> "twap", symbol |-> symbol, side |-> side,
                     total_quantity |-> total_quantity, slices |-> slices,
                     interval_seconds |-> interval_seconds,
                     per_order_qty |-> IF e.ok THEN Some(e.value) ELSE None]
         /\ IF ~e.ok
              THEN /\ result' = Raise(e.error)
                   /\ pc' = "done"
                   /\ UNCHANGED << cfg, nConfig >>
            ELSE /\ nConfig' = nConfig + 1
                 /\ IF ~c.ok
                      THEN /\ result' = Raise(c.error)
                           /\ pc' = "done"
                           /\ UNCHANGED cfg
                    ELSE /\ cfg' = Some(c.value)
                         /\ pc' = "twap_loop"
                         /\ UNCHANGED result
  /\ UNCHANGED << environ, i, responses, events, now, nPlace >>

\* one iteration of the loop, lines 63-73
TwapSlice ==
  /\ pc = "twap_loop"
  /\ i < call.slices
  /\ LET req == place_order(The(cfg), call.symbol, call.side, T_MARKET,
                            The(call.per_order_qty), None, None, None, now)
         nap == SleepsAfter(i, call.slices, call.interval_seconds)
     IN  \E net \in NetResults :
           LET r == _post(req, net)
           IN  /\ nPlace' = nPlace + 1
               /\ IF r.outcome.tag = "Accepted"
                    THEN /\ responses' = Append(responses, r.outcome.data)
                         /\ events' =
                              events \o r.wire
                                \o (IF nap
                                      THEN << [ev |-> "sleep",
                                               seconds |->
                                                 call.interval_seconds] >>
                                      ELSE << >>)
                         /\ now' = IF nap
                                     THEN now + call.interval_seconds
                                                  * MsPerSecond
                                     ELSE now
                         /\ i' = i + 1
                         /\ UNCHANGED << pc, result >>
                  ELSE /\ events' = events \o r.wire
                       /\ result' = TwapAbort(responses, r.outcome)
                       /\ pc' = "done"
                       /\ UNCHANGED << responses, now, i >>
  /\ UNCHANGED << environ, call, cfg, nConfig >>

\* lines 75-76: the loop is over
TwapReturn ==
  /\ pc = "twap_loop"
  /\ i = call.slices
  /\ result' = Return(responses)
  /\ pc' = "done"
  /\ UNCHANGED << environ, call, cfg, i, responses, events, now, nConfig,
                  nPlace >>

Next ==
  \/ \E symbol \in Symbols, side \in Sides, quantity \in Quantities :
       PlaceMarketOrder(symbol, side, quantity)
  \/ \E symbol \in Symbols, side \in Sides, quantity \in Quantities,
        price \in Prices :
       PlaceLimitOrder(symbol, side, quantity, price)
  \/ \E symbol \in Symbols, side \in Sides, quantity \in Quantities,
        price \in Prices, stop_price \in StopPrices :
       PlaceStopLimitOrder(symbol, side, quantity, price, stop_price)
  \/ \E symbol \in TwapSymbols, side \in TwapSides,
        total_quantity \in TotalQuantities, slices \in SliceCounts,
        interval_seconds \in Intervals :
       TwapStart(symbol, side, total_quantity, slices, interval_seconds)
  \/ TwapSlice
  \/ TwapReturn

Spec == Init /\ [][Next]_vars

(***************************************************************************)
(* validators.py called on its own: validate_order_input applied to every  *)
(* combination of raw arguments                                            *)
(***************************************************************************)
OrderTypes == { T_MARKET, T_LIMIT, T_STOP_LIMIT, T_STOP,
                << " ","l","i","m","i","t" >>,
                << "s","t","o","p","_","l","i","m","i","t","\t" >> }
RawSymbols == { SymBTC, SymPadded, SymShort }
RawSides == { T_BUY, << " ","s","e","l","l" >>, << "H","O","L","D" >> }
RawQuantities == Quantities \cup { NaN }
RawPrices == Prices \cup { Some(NaN) }
RawStopPrices == StopPrices \cup { Some(NaN) }

ValidatorInit ==
  /\ environ = CHOOSE e \in Environs : load_config(e).ok
  /\ pc = "idle"
  /\ call \in { [kind |-> "validate", symbol |-> symbol, side |-> side,
                  order_type |-> order_type, quantity |-> quantity,
                  price |-> price, stop_price |-> stop_price] :
                   symbol \in RawSymbols, side \in RawSides,
                   order_type \in OrderTypes, quantity \in RawQuantities,
                   price \in RawPrices, stop_price \in RawStopPrices }
  /\ cfg = None
  /\ i = 0
  /\ responses = << >>
  /\ result = [tag |-> "none"]
  /\ events = << >>
  /\ now = Clock0
  /\ nConfig = 0
  /\ nPlace = 0

\* validate_order_input, lines 50-83: the OrderInput returned or the
\* ValidationError raised
Validate ==
  /\ pc = "idle"
  /\ call.kind = "validate"
  /\ LET v == validate_order_input(call.symbol, call.side, call.order_type,
                                   call.quantity, call.price, call.stop_price)
     IN  result' = IF v.ok THEN Return(v.value) ELSE Raise(v.error)
  /\ pc' = "done"
  /\ UNCHANGED << environ, call, cfg, i, responses, events, now, nConfig,
                  nPlace >>

ValidatorNext == Validate

ValidatorSpec == ValidatorInit /\ [][ValidatorNext]_vars

(***************************************************************************)
(* What the properties read                                                *)
(***************************************************************************)
IsRequest(e) == e.ev = "request"
IsResponse(e) == e.ev = "response"
IsSleep(e) == e.ev = "sleep"
Requests == SelectSeq(events, IsRequest)
Replies == SelectSeq(events, IsResponse)
Sleeps == SelectSeq(events, IsSleep)

\* the sequence the caller holds when the call is over: nothing when it raised
ReturnedSequence == IF result.tag = "returned" THEN result.value ELSE << >>

TwapReturned == call.kind = "twap" /\ pc = "done" /\ result.tag = "returned"
\* a TWAP run that ended on a slice whose order was not accepted; the failed
\* slice is nPlace
TwapFailedInLoop ==
  call.kind = "twap" /\ pc = "done" /\ nPlace > Len(responses)
InvalidInput == result.tag = "raised" /\ result.error.tag = "InvalidInput"
CredentialsSet == load_config(environ).ok

(***************************************************************************)
(* C1: a TWAP run of N > 0 slices, all accepted, places exactly N MARKET   *)
(* orders one after the other, each for total_quantity / N; with a         *)
(* positive interval it sleeps exactly N - 1 times for interval_seconds,   *)
(* each sleep between one slice and the next and none after the last;      *)
(* with interval 0 it never sleeps; it returns N entries in slice order.   *)
(***************************************************************************)
C1_TwapAllAccepted ==
  TwapReturned =>
    LET N == call.slices
    IN  /\ N > 0 /\ call.interval_seconds >= 0
        /\ nPlace = N
        /\ Len(Requests) = N
        /\ Len(Replies) = N
        /\ \A k \in 1..N :
             /\ Requests[k].method = "POST"
             /\ Requests[k].path = ORDER_PATH
             /\ Get(Requests[k].params, "type") = StrV(T_MARKET)
             /\ Get(Requests[k].params, "quantity")
                  = FloatV(QDiv(call.total_quantity, N))
        /\ Len(Sleeps) = IF call.interval_seconds > 0 THEN N - 1 ELSE 0
        /\ \A p \in DOMAIN events :
             /\ IsSleep(events[p]) =>
                  /\ events[p].seconds = call.interval_seconds
                  /\ p > 1 /\ IsResponse(events[p - 1])
                  /\ p < Len(events) /\ IsRequest(events[p + 1])
             /\ IsRequest(events[p]) =>
                  p < Len(events) /\ IsResponse(events[p + 1])
        /\ Len(result.value) = N
        /\ \A k \in 1..N : result.value[k] = ParseBody(Replies[k].body)

C1_Witness ==
  /\ TwapReturned
  /\ call.slices = MaxSlices
  /\ call.interval_seconds = MaxInterval
  /\ Len(Sleeps) = MaxSlices - 1

(***************************************************************************)
(* C2: when the order of slice k of a TWAP run fails, the run has made     *)
(* exactly k network calls, all of them order placements: no later slice   *)
(* is placed, slice k is not sent again, no sleep follows it, and nothing  *)
(* is cancelled.                                                           *)
(***************************************************************************)
C2_TwapAbortsAtFailure ==
  TwapFailedInLoop =>
    LET k == nPlace
    IN  /\ k = Len(responses) + 1
        /\ k <= call.slices
        /\ Len(Requests) = k
        /\ \A j \in 1..k :
             Requests[j].method = "POST" /\ Requests[j].path = ORDER_PATH
        /\ ~IsSleep(events[Len(events)])
        /\ Len(Sleeps) = IF call.interval_seconds > 0 THEN k - 1 ELSE 0
        /\ Len(Replies) \in { k - 1, k }

C2_Witness ==
  /\ TwapFailedInLoop
  /\ nPlace = 2
  /\ call.slices = MaxSlices
  /\ call.interval_seconds > 0
  /\ result.error.tag = "TransportError"

(***************************************************************************)
(* C3 as stated: when slice k of a TWAP run fails, the caller receives a   *)
(* sequence of exactly k entries, the accepted responses of slices         *)
(* 1..k-1 followed by the error of slice k.                                *)
(***************************************************************************)
C3_PartialResultsReturned ==
  TwapFailedInLoop =>
    LET k == nPlace
    IN  /\ Len(ReturnedSequence) = k
        /\ \A j \in 1..(k - 1) : ReturnedSequence[j] = responses[j]

\* the outcome of the call of slice k, read off the wire
SliceOutcome(k) ==
  IF Len(Replies) >= k
    THEN Classify(Replies[k].status_code, Replies[k].body)
    ELSE [tag |-> "TransportError"]

(***************************************************************************)
(* C3, what the code does instead: when slice k of a TWAP run fails, the   *)
(* caller receives the failure of slice k and nothing else: the exception  *)
(* leaves run_twap_strategy, no sequence is returned, and the k-1          *)
(* accepted responses, which the local list held, are not handed over.     *)
(***************************************************************************)
C3_OnlyFailureDelivered ==
  TwapFailedInLoop =>
    LET k == nPlace
    IN  /\ result = Raise(SliceOutcome(k))
        /\ SliceOutcome(k).tag # "Accepted"
        /\ ReturnedSequence = << >>
        /\ Len(responses) = k - 1
        /\ \A j \in 1..(k - 1) : responses[j] = ParseBody(Replies[j].body)

C3_Witness ==
  /\ TwapFailedInLoop
  /\ call.slices = MaxSlices
  /\ nPlace = MaxSlices
  /\ Len(responses) = MaxSlices - 1
  /\ result.tag = "raised"
  /\ result.error.tag = "Rejected"

(***************************************************************************)
(* C4: a TWAP run with slices <= 0 or interval_seconds < 0 raises          *)
(* InvalidInput before anything else happens, whatever the other           *)
(* arguments: no request, no sleep, no load of the credentials.            *)
(***************************************************************************)
C4_TwapBadPlanRejected ==
  (call.kind = "twap" /\ (call.slices <= 0 \/ call.interval_seconds < 0)) =>
    /\ pc = "done"
    /\ InvalidInput
    /\ events = << >>
    /\ nPlace = 0
    /\ nConfig = 0
    /\ cfg = None

C4_Witness ==
  /\ call.kind = "twap"
  /\ call.slices > 0
  /\ call.interval_seconds < 0
  /\ call.symbol = SymPadded
  /\ QPositive(call.total_quantity)
  /\ _normalize_side(call.side).ok
  /\ CredentialsSet
  /\ InvalidInput

\* the arguments of the call break a rule of the validator or of the TWAP entry
BadCall ==
  \/ ~_normalize_symbol(call.symbol).ok
  \/ ~_normalize_side(call.side).ok
  \/ call.kind # "twap" /\ call.quantity.num <= 0
  \/ /\ call.kind \in { "limit", "stop_limit" }
     /\ (IsNone(call.price) \/ The(call.price).num <= 0)
  \/ /\ call.kind = "stop_limit"
     /\ (IsNone(call.stop_price) \/ The(call.stop_price).num <= 0)
  \/ /\ call.kind = "twap"
     /\ \/ call.slices <= 0
        \/ call.interval_seconds < 0
        \/ call.total_quantity.num <= 0

(***************************************************************************)
(* C5: InvalidInput never coexists with a network call.  In the three      *)
(* order helpers and in run_twap_strategy a call whose arguments are bad   *)
(* (symbol, side, quantity <= 0, price or stop price missing or <= 0,      *)
(* per-slice quantity <= 0) ends in InvalidInput, and a call that ended    *)
(* in InvalidInput sent no request and built no client; the client is      *)
(* built only after the arguments passed every check.                      *)
(***************************************************************************)
C5_InvalidInputBeforeNetwork ==
  /\ InvalidInput => events = << >> /\ nPlace = 0 /\ nConfig = 0
  /\ (pc = "done" /\ BadCall) => InvalidInput
  /\ (nConfig > 0 \/ events # << >>) => ~BadCall

C5_Witness ==
  /\ call.kind = "stop_limit"
  /\ call.symbol = SymPadded
  /\ QPositive(call.quantity)
  /\ call.price = Some(Q(75000, 1))
  /\ call.stop_price = None
  /\ CredentialsSet
  /\ InvalidInput
  /\ events = << >>

(***************************************************************************)
(* C6: every call of place_order sends exactly one POST to the order       *)
(* endpoint, whatever its outcome: the requests sent are as many as the    *)
(* calls of place_order.                                                   *)
(***************************************************************************)
C6_OnePostPerCall ==
  /\ Len(Requests) = nPlace
  /\ \A k \in DOMAIN Requests :
       Requests[k].method = "POST" /\ Requests[k].path = ORDER_PATH
  /\ Len(Replies) <= nPlace

C6_Witness ==
  /\ call.kind = "twap"
  /\ nPlace = MaxSlices
  /\ Len(Requests) = MaxSlices
  /\ result.tag = "raised"
  /\ result.error.tag = "Rejected"
  /\ result.error.status_code >= HttpErrorFloor

\* the state after a call of the client for which a response arrived
ResponseObtained ==
  pc = "done" /\ events # << >> /\ IsResponse(events[Len(events)])
LastReply == events[Len(events)]
\* what the last call of the client handed back, when it returned
LastData ==
  IF call.kind = "twap" THEN result.value[Len(result.value)] ELSE result.value
Rejected == result.tag = "raised" /\ result.error.tag = "Rejected"

\* the body is a JSON object with a code that is not zero
HasErrorCode(body) ==
  /\ body.json
  /\ body.value.kind = "object"
  /\ "code" \in DOMAIN body.value.val
  /\ body.value.val.code # JNumber(0)

(***************************************************************************)
(* C7 as stated: a response is classified Rejected if and only if its      *)
(* status is >= 400 or its parsed body carries a code that is present and  *)
(* not zero; every other response is Accepted and returns the fields of    *)
(* the body as received.                                                   *)
(***************************************************************************)
C7_RejectedIffErrorStatusOrCode ==
  ResponseObtained =>
    LET wanted == \/ LastReply.status_code >= HttpErrorFloor
                  \/ HasErrorCode(LastReply.body)
    IN  /\ Rejected <=> wanted
        /\ ~wanted =>
             /\ result.tag = "returned"
             /\ LastReply.body.json => LastData = LastReply.body.value

(***************************************************************************)
(* C8 as stated: a call for which an HTTP response was obtained ends       *)
(* Accepted or Rejected, whatever the status and the body; a call the      *)
(* network failed ends in TransportError; there is no other outcome.       *)
(***************************************************************************)
C8_AcceptedOrRejected ==
  (pc = "done" /\ events # << >>) =>
    IF IsResponse(events[Len(events)])
      THEN result.tag = "returned" \/ Rejected
      ELSE result.tag = "raised" /\ result.error.tag = "TransportError"

NotSignature(pair) == pair[1] # "signature"
\* the text of a mapping: each value as str() gives it
AsText(params) ==
  [j \in DOMAIN params |-> << params[j][1], ToText(params[j][2]) >>]
\* a query string up to its last "&", and after it
LastAmp(q) == CHOOSE k \in DOMAIN q : q[k] = "&" /\ \A j \in (k + 1)..Len(q) : q[j] # "&"
UpToLastField(q) == SubSeq(q, 1, LastAmp(q) - 1)
LastField(q) == SubSeq(q, LastAmp(q) + 1, Len(q))

(***************************************************************************)
(* C9: every request sent carries timestamp, recvWindow (the caller's      *)
(* value when the caller gave one, the configured default otherwise) and   *)
(* signature; the signature is the HMAC of the encoding of all the other   *)
(* parameters, timestamp and recvWindow among them, never of a mapping     *)
(* that holds a signature; and signature is the last parameter sent.       *)
(***************************************************************************)
C9_SignedRequestShape ==
  \A n \in DOMAIN Requests :
    LET e == Requests[n]
        p == e.params
        others == SelectSeq(p, NotSignature)
        secret == load_config(environ).value.api_secret
    IN  /\ HasKey(p, "timestamp") /\ HasKey(p, "recvWindow")
        /\ HasKey(p, "signature")
        /\ Get(p, "recvWindow") =
             IF HasKey(e.caller, "recvWindow") THEN Get(e.caller, "recvWindow")
             ELSE IntV(RecvWindowDefault)
        /\ \A j \in DOMAIN e.caller : p[j] = e.caller[j]
        /\ p[Len(p)][1] = "signature"
        /\ others = SubSeq(p, 1, Len(p) - 1)
        /\ HasKey(others, "timestamp") /\ HasKey(others, "recvWindow")
        /\ e.signed = urlencode(others)
        /\ "signature" \notin Range(e.signed)
        /\ Get(p, "signature") = StrV(hmac_hexdigest(secret, urlencode(others)))

C9_Witness ==
  /\ call.kind = "stop_limit"
  /\ Len(Requests) = 1
  /\ Len(Requests[1].params) = 10
  /\ Keys(Requests[1].params)[8] = "timestamp"

(***************************************************************************)
(* C10: the text that is signed is the text that is sent.  For every       *)
(* request, the query string on the wire without its last parameter, the   *)
(* signature, is the text the HMAC was computed over, so the HMAC          *)
(* recomputed from the wire equals the signature sent; and decoding the    *)
(* query string gives back the parameter mapping, each value as its text.  *)
(***************************************************************************)
C10_SignedIsSent ==
  \A n \in DOMAIN Requests :
    LET e == Requests[n]
        p == e.params
        secret == load_config(environ).value.api_secret
    IN  /\ UpToLastField(e.query) = e.signed
        /\ LastField(e.query)
             = << "signature", "=" >> \o Get(p, "signature").v
        /\ hmac_hexdigest(secret, UpToLastField(e.query))
             = Get(p, "signature").v
        /\ parse_qsl(e.query) = AsText(p)
        /\ parse_qsl(UpToLastField(e.query))
             = AsText(WithDefaults([recv_window |-> RecvWindowDefault],
                                   e.caller,
                                   Get(p, "timestamp").v))

C10_Witness ==
  /\ call.kind = "twap"
  /\ call.symbol = SymPadded
  /\ Len(Requests) = MaxSlices
  /\ "%" \in Range(Requests[MaxSlices].query)
  /\ "+" \in Range(Requests[MaxSlices].query)
  /\ " " \in Range(parse_qsl(Requests[MaxSlices].query)[1][2])

(***************************************************************************)
(* C11: every OrderInput that validate_order_input returns has exactly     *)
(* the fields its order type requires: price is present iff the type is    *)
(* LIMIT or STOP_LIMIT, stop_price is present iff the type is STOP_LIMIT,  *)
(* whatever the raw arguments were; a present price or stop_price is > 0   *)
(* and quantity is > 0.                                                    *)
(***************************************************************************)
Validated == call.kind = "validate" /\ pc = "done" /\ result.tag = "returned"

C11_ExactFields ==
  Validated =>
    LET o == result.value
    IN  /\ ~IsNone(o.price) <=> o.order_type \in { T_LIMIT, T_STOP_LIMIT }
        /\ ~IsNone(o.stop_price) <=> o.order_type = T_STOP_LIMIT
        /\ ~IsNone(o.price) => QPositive(The(o.price))
        /\ ~IsNone(o.stop_price) => QPositive(The(o.stop_price))
        /\ QPositive(o.quantity)

\* C11, the part the code keeps: a field the order type requires is present
\* and is not <= 0, and quantity is not <= 0; a field the type does not use
\* is returned as it was passed
C11_RequiredFieldsChecked ==
  Validated =>
    LET o == result.value
    IN  /\ o.order_type \in { T_LIMIT, T_STOP_LIMIT } =>
              ~IsNone(o.price) /\ ~QLeZero(The(o.price))
        /\ o.order_type = T_STOP_LIMIT =>
              ~IsNone(o.stop_price) /\ ~QLeZero(The(o.stop_price))
        /\ ~QLeZero(o.quantity)
        /\ o.price = call.price
        /\ o.stop_price = call.stop_price
        /\ o.quantity = call.quantity

\* a MARKET request given a price is returned with that price
C11_MarketKeepsPrice ==
  /\ Validated
  /\ result.value.order_type = T_MARKET
  /\ call.price = Some(Q(75000, 1))
  /\ result.value.price = Some(Q(75000, 1))

(***************************************************************************)
(* C12: validate_order_input raises ValidationError for every LIMIT or     *)
(* STOP_LIMIT request whose price is absent or <= 0 and for every          *)
(* STOP_LIMIT request whose stop_price is absent or <= 0.  A STOP_LIMIT    *)
(* request, valid in its other arguments, that supplies only one of the    *)
(* two fails with a message naming the one that is missing: stop_price     *)
(* when the price was given, the price (and not stop_price) when the stop  *)
(* price was given.                                                        *)
(***************************************************************************)
W_PRICE == << "P","R","I","C","E" >>
W_STOP_PRICE == << "S","T","O","P","_","P","R","I","C","E" >>

ValidateDone == call.kind = "validate" /\ pc = "done"
RequestedType == _normalize_order_type(call.order_type)
Lacks(o) == IsNone(o) \/ QLeZero(The(o))
\* symbol, side and quantity of the request pass their checks
RestValid ==
  /\ _normalize_symbol(call.symbol).ok
  /\ _normalize_side(call.side).ok
  /\ ~QLeZero(call.quantity)
NamesStopPrice(m) == IsSubstring(W_STOP_PRICE, Upper(m))
NamesPrice(m) == IsSubstring(W_PRICE, Upper(m)) /\ ~NamesStopPrice(m)

C12_PriceRequired ==
  ValidateDone /\ RequestedType.ok =>
    /\ (RequestedType.value \in { T_LIMIT, T_STOP_LIMIT } /\ Lacks(call.price))
          => InvalidInput
    /\ (RequestedType.value = T_STOP_LIMIT /\ Lacks(call.stop_price))
          => InvalidInput
    /\ (RequestedType.value = T_STOP_LIMIT /\ RestValid) =>
          /\ (~Lacks(call.price) /\ IsNone(call.stop_price))
                => InvalidInput /\ NamesStopPrice(result.error.msg)
          /\ (IsNone(call.price) /\ ~Lacks(call.stop_price))
                => InvalidInput /\ NamesPrice(result.error.msg)

C12_Witness ==
  /\ ValidateDone
  /\ call.order_type = << "s","t","o","p","_","l","i","m","i","t","\t" >>
  /\ RestValid
  /\ IsNone(call.price)
  /\ call.stop_price = Some(Q(74000, 1))
  /\ InvalidInput
  /\ result.error.msg = PRICE_MESSAGE

(***************************************************************************)
(* C13: the parameters sent are fixed by the kind of order.  A MARKET      *)
(* order (place_market_order, every TWAP slice) carries symbol, side,      *)
(* type=MARKET and quantity and no price, timeInForce or stopPrice; a      *)
(* LIMIT order adds price and timeInForce=GTC and has no stopPrice; a      *)
(* STOP_LIMIT order is sent as type=STOP with price, stopPrice and         *)
(* timeInForce=GTC.  Apart from the three parameters every signed request  *)
(* gets, nothing else is sent: a parameter not provided is left out, on    *)
(* the wire as in the mapping, and no parameter is sent with an empty      *)
(* value.                                                                  *)
(***************************************************************************)
KeySet(params) == { params[j][1] : j \in DOMAIN params }
BaseKeys == { "symbol", "side", "type", "quantity" }
RequestKeys == { "timestamp", "recvWindow", "signature" }
SentQuantity ==
  IF call.kind = "twap" THEN The(call.per_order_qty) ELSE call.quantity

C13_ParametersFixedByKind ==
  \A n \in DOMAIN Requests :
    LET e == Requests[n]
        p == e.params
        wire == parse_qsl(e.query)
    IN  /\ Len(p) = Cardinality(KeySet(p))
        /\ Keys(wire) = Keys(p)
        /\ \A j \in DOMAIN p : ToText(p[j][2]) # << >> /\ wire[j][2] # << >>
        /\ Get(p, "quantity") = FloatV(SentQuantity)
        /\ call.kind \in { "market", "twap" } =>
              /\ KeySet(p) = BaseKeys \cup RequestKeys
              /\ Get(p, "type") = StrV(T_MARKET)
        /\ call.kind = "limit" =>
              /\ KeySet(p) = BaseKeys \cup RequestKeys
                                \cup { "price", "timeInForce" }
              /\ Get(p, "type") = StrV(T_LIMIT)
              /\ Get(p, "price") = FloatV(The(call.price))
              /\ Get(p, "timeInForce") = StrV(T_GTC)
        /\ call.kind = "stop_limit" =>
              /\ KeySet(p) = BaseKeys \cup RequestKeys
                                \cup { "price", "timeInForce", "stopPrice" }
              /\ Get(p, "type") = StrV(T_STOP)
              /\ Get(p, "price") = FloatV(The(call.price))
              /\ Get(p, "stopPrice") = FloatV(The(call.stop_price))
              /\ Get(p, "timeInForce") = StrV(T_GTC)

C13_Witness ==
  /\ call.kind = "stop_limit"
  /\ Len(Requests) = 1
  /\ Get(Requests[1].params, "type") = StrV(T_STOP)
  /\ Get(Requests[1].params, "stopPrice") = FloatV(Q(74000, 1))
  /\ Get(Requests[1].params, "timeInForce") = StrV(T_GTC)

\* a MARKET order went out, from place_market_order and from a TWAP slice
C13_MarketSent ==
  /\ call.kind = "twap"
  /\ Len(Requests) = 2
  /\ ~HasKey(Requests[2].params, "price")

(***************************************************************************)
(* C14: every order sent, by place_market_order, place_limit_order,        *)
(* place_stop_limit_order or a slice of run_twap_strategy, carries the     *)
(* symbol and side the validator normalized (trimmed, upper case), not     *)
(* the caller's raw text.                                                  *)
(***************************************************************************)
SendsNormalized(e) ==
  /\ Get(e.params, "symbol") = StrV(_normalize_symbol(call.symbol).value)
  /\ Get(e.params, "side") = StrV(_normalize_side(call.side).value)

C14_NormalizedSymbolAndSideSent ==
  \A n \in DOMAIN Requests : SendsNormalized(Requests[n])

\* C14, the part the code keeps: the three order helpers send what the
\* validator returned; a TWAP slice sends the caller's raw symbol and side
C14_HelpersSendNormalized ==
  \A n \in DOMAIN Requests :
    IF call.kind = "twap"
      THEN /\ Get(Requests[n].params, "symbol") = StrV(call.symbol)
           /\ Get(Requests[n].params, "side") = StrV(call.side)
    ELSE SendsNormalized(Requests[n])

\* a helper sent a symbol that validates only after normalization
C14_HelperNormalized ==
  /\ call.kind = "market"
  /\ call.symbol = SymPadded
  /\ call.side = << "s","e","l","l" >>
  /\ Len(Requests) = 1
  /\ Get(Requests[1].params, "symbol") = StrV(SymBTC)
  /\ Get(Requests[1].params, "side") = StrV(T_SELL)

\* a TWAP slice sent the padded lower-case symbol as it was given
C14_TwapSendsRaw ==
  /\ call.kind = "twap"
  /\ Len(Requests) >= 1
  /\ Get(Requests[1].params, "symbol") = StrV(SymPadded)
  /\ _normalize_symbol(call.symbol).value = SymBTC

====
